---- MODULE Spec2Model ----
(***************************************************************************)
(* Model of juju/model.py: the delta history store (ModelState), the       *)
(* entity views over it (ModelEntity) and the watcher task of Model with   *)
(* its connect/disconnect handshake and observer notifications.            *)
(*                                                                         *)
(* The coroutines run on one asyncio event loop: a step of the model is    *)
(* what a coroutine does between two suspensions.  A cancelled task sees   *)
(* concurrent.futures.CancelledError, the exception model.py catches (the  *)
(* asyncio of the Python versions the module was written for).             *)
(***************************************************************************)
EXTENDS Integers, Sequences, FiniteSets, TLC

\* ---------------------------------------------------------------- bounds
MaxDeltas == 2      \* deltas the watch source delivers over a whole run
MaxLongRun == 4     \* the same, for the longer runs of LongSpec
MaxHistory == 3     \* length up to which a history is extended by direct calls
MaxBatch == 2       \* deltas in one batch returned by Next()
MaxConnects == 2    \* calls of connect_current
MaxObservers == 1   \* observers the caller of Spec registers

\* ---------------------------------------------------------------- inputs
None == "None"                      \* Python None: tombstone / null delta data
DataValues == {"alive", "dying"}    \* data mappings, named by their life field
Snapshots == DataValues \cup {None}
Kinds == {"machine", "unit"}
Ids == {"0"}
DeltaTypes == {"add", "change", "remove"}
\* The observers that exist: at least two, so that one can fail beside another.
ObserverIds == 1..(IF MaxObservers > 2 THEN MaxObservers ELSE 2)

\* The deltas apply_delta may be given: data is null only for a removal (a
\* removal may also carry the entity's last data).
Deltas ==
    {d \in [entity : Kinds, id : Ids, type : DeltaTypes, data : Snapshots] :
        d.data = None => d.type = "remove"}

\* The watch source of the modelled run reports on one machine: a change to
\* an alive machine, or its removal, which carries no data.
WatchDeltas ==
    {d \in Deltas :
        /\ d.entity = "machine"
        /\ d.type \in {"change", "remove"}
        /\ d.data = (IF d.type = "remove" THEN None ELSE "alive")}

\* The deltas list of one Next() result: it may be empty.
Batches == UNION {[1..n -> WatchDeltas] : n \in 0..MaxBatch}

\* ---------------------------------------------------------- ModelObserver
\* The observers are ModelObserver subclasses. Handlers(o) are the on_*
\* methods observer o defines besides the inherited on_change.
Handlers(o) ==
    IF o = 1 THEN {"on_machine_add", "on_machine_change"}
    ELSE IF o = 2 THEN {"on_machine_remove"}
    ELSE {}

\* 'on_{}_{}'.format(delta.entity, type_), views being <<>> for None.
handler_name(delta, old, new) ==
    LET type_ == IF old = <<>> /\ new # <<>> THEN "add" ELSE delta.type
    IN  "on_" \o delta.entity \o "_" \o type_

\* ModelObserver.__call__: the method that is awaited.
ModelObserver_call(o, delta, old, new) ==
    LET name == handler_name(delta, old, new)
    IN  IF name \in Handlers(o) THEN name ELSE "on_change"

\* ------------------------------------------------------------ ModelState
\* history[history_index] on a deque: IndexError outside -len .. len-1.
InRange(history, i) == i >= -Len(history) /\ i < Len(history)

Index(history, i) ==
    IF i >= 0 THEN history[i + 1] ELSE history[Len(history) + i + 1]

entity_history(st, entity_type, entity_id) == st[<<entity_type, entity_id>>]

entity_data(st, entity_type, entity_id, history_index) ==
    Index(entity_history(st, entity_type, entity_id), history_index)

\* A view is <<>> (None) or a one-element sequence holding the ModelEntity.
NoEntity == <<>>

ModelEntity(entity_id, entity_type, history_index, connected) ==
    <<[entity_type |-> entity_type, entity_id |-> entity_id,
       history_index |-> history_index, connected |-> connected]>>

get_entity(st, entity_type, entity_id, history_index, connected) ==
    LET history == entity_history(st, entity_type, entity_id)
        idx == IF history_index < 0 /\ history_index # -1
               THEN history_index + Len(history)
               ELSE history_index
    IN  IF InRange(history, idx)
        THEN ModelEntity(entity_id, entity_type, idx, connected)
        ELSE NoEntity

\* Mutant: the map keeps the removed entities too.
live_entity_map_unfiltered(st, entity_type) ==
    [entity_id \in {i \in Ids : entity_history(st, entity_type, i) # <<>>} |->
        get_entity(st, entity_type, entity_id, -1, TRUE)]

\* _live_entity_map: the ids of entity_type that have a history (a history is
\* never empty: it is created by the append of its first snapshot) whose last
\* snapshot is not None, each with get_entity's default view.
live_entity_map(st, entity_type) ==
    [entity_id \in {i \in Ids :
                       /\ entity_history(st, entity_type, i) # <<>>
                       /\ entity_data(st, entity_type, i, -1) # None} |->
        get_entity(st, entity_type, entity_id, -1, TRUE)]

\* ----------------------------------------------------------- ModelEntity
data(st, v) == entity_data(st, v.entity_type, v.entity_id, v.history_index)

current(v) == v.history_index = -1

\* Mutant: dead looks at the view's own snapshot only.
dead_own_snapshot(st, v) == data(st, v) = None

dead(st, v) ==
    \/ data(st, v) = None
    \/ entity_data(st, v.entity_type, v.entity_id, -1) = None

alive(st, v) == ~dead(st, v)

previous(st, v) ==
    get_entity(st, v.entity_type, v.entity_id, v.history_index - 1, FALSE)

\* next(): None for a current view; otherwise connected is computed from
\* _history_index + 1 and the view is fetched at _history_index - 1.
next(st, v) ==
    IF v.history_index = -1
    THEN NoEntity
    ELSE LET new_index == v.history_index + 1
             connected ==
                 new_index = Len(entity_history(st, v.entity_type, v.entity_id)) - 1
         IN  get_entity(st, v.entity_type, v.entity_id,
                        v.history_index - 1, connected)

\* latest(): self for a current view, else get_entity's default view.
latest(st, v) ==
    IF v.history_index = -1
    THEN <<v>>
    ELSE get_entity(st, v.entity_type, v.entity_id, -1, TRUE)

\* ----------------------------------------------- ModelState.apply_delta
\* Mutant: a removal appends its data but no tombstone.
apply_delta_no_tombstone(st, delta) ==
    LET key == <<delta.entity, delta.id>>
        st2 == [st EXCEPT ![key] = Append(st[key], delta.data)]
        entity == get_entity(st2, delta.entity, delta.id, -1, TRUE)
    IN  [state |-> st2, old |-> previous(st2, entity[1]), new |-> entity]

\* Mutant: the history is a deque(maxlen=2), which drops its oldest snapshot.
apply_delta_maxlen(st, delta) ==
    LET key == <<delta.entity, delta.id>>
        appended == Append(st[key], delta.data)
        full == IF delta.type = "remove"
                THEN Append(appended, None)
                ELSE appended
        history == IF Len(full) > 2
                   THEN SubSeq(full, Len(full) - 1, Len(full))
                   ELSE full
        st2 == [st EXCEPT ![key] = history]
        entity == get_entity(st2, delta.entity, delta.id, -1, TRUE)
    IN  [state |-> st2, old |-> previous(st2, entity[1]), new |-> entity]

apply_delta(st, delta) ==
    LET key == <<delta.entity, delta.id>>
        appended == Append(st[key], delta.data)
        history == IF delta.type = "remove"
                   THEN Append(appended, None)
                   ELSE appended
        st2 == [st EXCEPT ![key] = history]
        entity == get_entity(st2, delta.entity, delta.id, -1, TRUE)
    IN  [state |-> st2, old |-> previous(st2, entity[1]), new |-> entity]

\* ------------------------------------------------------------------ Model
VARIABLES
    state,           \* ModelState.state: (kind, id) -> history deque
    connection,      \* Model.connection: "None" or "open"
    watch_conn,      \* Model._watch_conn: "unset", "open" or "None"
    watch_shutdown,  \* Model._watch_shutdown (asyncio.Event)
    watch_received,  \* Model._watch_received (asyncio.Event)
    observers,       \* Model.observers
    tasks,           \* the watcher tasks created so far; _watcher_task is the last
    notif,           \* one entry per applied delta: the shielded notification
    received,        \* the deltas returned by Next() so far, in order
    clientPc,        \* where the caller of the Model API stands
    ret,             \* the last call of apply_delta: its delta, the history
                     \* it found and the (old, new) pair it returned
    held,            \* the view a caller of the store holds, with the data it
                     \* resolved to when the caller obtained it
    blocked          \* the caller's block_until() / reset() call

vars == <<state, connection, watch_conn, watch_shutdown, watch_received,
          observers, tasks, notif, received, clientPc, ret, held,
          blocked>>

Entities == Kinds \X Ids

\* A watcher task: where its coroutine stands (pc), the deltas of the current
\* batch still to apply (batch), the notifications of the current batch
\* (first..cur, cur being the one awaited), a pending cancellation request
\* (cancel), the await at which CancelledError was raised (at), whether
\* the task has finished a batch (got), and the connection its clone() call
\* returned (conn): "none" before, "watch" while open and referenced by
\* _watch_conn, "open" when open and no longer referenced, "closing" while its
\* close() is awaited, "closed" after; and, while that close() is awaited,
\* the observer tasks that were already on the loop's queue when it was
\* called (queued), as pairs of notification and observer.
NewTask == [pc |-> "created", batch |-> <<>>, first |-> 1, cur |-> 0,
            cancel |-> FALSE, at |-> "none", got |-> FALSE, conn |-> "none",
            queued |-> {}]

\* No block_until() or reset() call has been made.
NoCall == [op |-> "none", conditions |-> {}, timeout |-> None, pc |-> "none",
           slept |-> FALSE]

Init ==
    /\ state = [e \in Entities |-> <<>>]
    /\ connection = "None"
    /\ watch_conn = "unset"
    /\ watch_shutdown = FALSE
    /\ watch_received = FALSE
    /\ observers = {}
    /\ tasks = <<>>
    /\ notif = <<>>
    /\ received = <<>>
    /\ clientPc = "idle"
    /\ ret = <<>>
    /\ held = <<>>
    /\ blocked = NoCall

\* Task.cancel(): no effect on a finished task; otherwise CancelledError is
\* thrown into the coroutine at its next step.
Cancel(ts, t) ==
    IF ts[t].pc \in {"created", "clone", "next", "notify", "closing"}
    THEN [ts EXCEPT ![t].cancel = TRUE]
    ELSE ts

\* ------------------------------------------------------- Model.add_observer
add_observer(o) ==
    /\ clientPc = "idle"
    /\ o \notin observers
    /\ observers' = observers \cup {o}
    /\ UNCHANGED <<held, blocked, state, connection, watch_conn, watch_shutdown,
                   watch_received, tasks, notif, received, clientPc, ret>>

\* ---------------------------------------------------- Model.connect_current
\* The call starts: it awaits Connection.connect_current().
connect_current ==
    /\ clientPc = "idle"
    /\ connection = "None"
    /\ Len(tasks) < MaxConnects
    /\ clientPc' = "connecting"
    /\ UNCHANGED <<held, blocked, state, connection, watch_conn, watch_shutdown,
                   watch_received, observers, tasks, notif, received, ret>>

\* The connection is there: _watch() creates the watcher task, then the call
\* waits for _watch_received (no suspension when the event is already set).
watch ==
    /\ clientPc = "connecting"
    /\ connection' = "open"
    /\ tasks' = Append(tasks, [NewTask EXCEPT !.first = Len(notif) + 1])
    /\ clientPc' = IF watch_received THEN "idle" ELSE "wait_received"
    /\ UNCHANGED <<held, blocked, state, watch_conn, watch_shutdown, watch_received,
                   observers, notif, received, ret>>

connect_return ==
    /\ clientPc = "wait_received"
    /\ watch_received
    /\ clientPc' = "idle"
    /\ UNCHANGED <<held, blocked, state, connection, watch_conn, watch_shutdown,
                   watch_received, observers, tasks, notif, received, ret>>

\* --------------------------------------------------------- Model.disconnect
\* _stop_watching() cancels the last watcher task; then, with an open
\* connection, the call waits for _watch_shutdown and closes the connection.
stop_watching(ts) == IF Len(ts) > 0 THEN Cancel(ts, Len(ts)) ELSE ts

disconnect ==
    /\ clientPc = "idle"
    /\ tasks' = stop_watching(tasks)
    /\ clientPc' = IF connection = "open"
                   THEN (IF watch_shutdown THEN "closing" ELSE "wait_shutdown")
                   ELSE "idle"
    /\ UNCHANGED <<held, blocked, state, connection, watch_conn, watch_shutdown,
                   watch_received, observers, notif, received, ret>>

disconnect_shutdown ==
    /\ clientPc = "wait_shutdown"
    /\ watch_shutdown
    /\ clientPc' = "closing"
    /\ UNCHANGED <<held, blocked, state, connection, watch_conn, watch_shutdown,
                   watch_received, observers, tasks, notif, received, ret>>

disconnect_close ==
    /\ clientPc = "closing"
    /\ connection' = "None"
    /\ clientPc' = "idle"
    /\ UNCHANGED <<held, blocked, state, watch_conn, watch_shutdown, watch_received,
                   observers, tasks, notif, received, ret>>

\* ------------------------------------------------- Model._watch._start_watch
\* The task's first step. A task cancelled before it ever ran ends at once:
\* nothing of the coroutine, not even its try block, has been entered.
\* Otherwise it clears _watch_shutdown and awaits connection.clone().
start_watch(t) ==
    /\ tasks[t].pc = "created"
    /\ IF tasks[t].cancel
       THEN /\ tasks' = [tasks EXCEPT ![t].pc = "cancelled", ![t].cancel = FALSE]
            /\ UNCHANGED watch_shutdown
       ELSE /\ watch_shutdown' = FALSE
            /\ tasks' = [tasks EXCEPT ![t].pc =
                            IF connection = "open" THEN "clone" ELSE "failed"]
    /\ UNCHANGED <<held, blocked, state, connection, watch_conn, watch_received, observers,
                   notif, received, clientPc, ret>>

\* self._watch_conn = <a connection>: the connection of task t, or None (t = 0).
\* The connection _watch_conn referenced before stays as it is, unreferenced.
Rebind(ts, t) ==
    [u \in DOMAIN ts |->
        IF u = t THEN [ts[u] EXCEPT !.conn = "watch"]
        ELSE IF ts[u].conn = "watch" THEN [ts[u] EXCEPT !.conn = "open"]
        ELSE ts[u]]

\* self._watch_conn.close() is called / has returned.
CloseCalled(ts) ==
    [u \in DOMAIN ts |->
        IF ts[u].conn = "watch" THEN [ts[u] EXCEPT !.conn = "closing"] ELSE ts[u]]

CloseReturned(ts) ==
    [u \in DOMAIN ts |->
        IF ts[u].conn = "closing" THEN [ts[u] EXCEPT !.conn = "closed"] ELSE ts[u]]

\* connection.clone() returned: _watch_conn is set, the task awaits Next().
clone(t) ==
    /\ tasks[t].pc = "clone"
    /\ ~tasks[t].cancel
    /\ watch_conn' = "open"
    /\ tasks' = Rebind([tasks EXCEPT ![t].pc = "next"], t)
    /\ UNCHANGED <<held, blocked, state, connection, watch_shutdown, watch_received,
                   observers, notif, received, clientPc, ret>>

\* clone() or Next() raises a transport error: it is not a CancelledError, so
\* the handler does not run and the task ends with the exception.
transport_error(t) ==
    /\ tasks[t].pc \in {"clone", "next"}
    /\ ~tasks[t].cancel
    /\ tasks' = [tasks EXCEPT ![t].pc = "failed"]
    /\ UNCHANGED <<held, blocked, state, connection, watch_conn, watch_shutdown,
                   watch_received, observers, notif, received, clientPc, ret>>

\* One pass of the body of "for delta in results.deltas" up to its await:
\* apply_delta, then asyncio.shield(self._notify_observers(...)) creates the
\* notification task and the watcher task waits for it.
Call(st, delta, r) ==
    [delta |-> delta, before |-> st[<<delta.entity, delta.id>>],
     old |-> r.old, new |-> r.new]

\* What a view resolves to when its data is read.
Resolve(st, view) == IF view = NoEntity THEN "NoEntity" ELSE data(st, view[1])

\* The notification of one applied delta: the arguments of _notify_observers
\* (delta, old, new), what the two views resolved to when they were handed
\* over, the observers registered then, the state of the shielded task
\* (notify) and of the observer task of each observer (obs), how often each
\* observer was invoked (calls) and the handler its __call__ awaited.
Notification(delta, r) ==
    [delta |-> delta, old |-> r.old, new |-> r.new,
     oldData |-> Resolve(r.state, r.old), newData |-> Resolve(r.state, r.new),
     registered |-> observers, notify |-> "pending",
     obs |-> [o \in ObserverIds |-> "none"],
     calls |-> [o \in ObserverIds |-> 0],
     handler |-> [o \in ObserverIds |-> "none"]]

apply_and_shield(t, batch) ==
    LET delta == Head(batch)
        r == apply_delta(state, delta)
    IN  /\ state' = r.state
        /\ ret' = <<Call(state, delta, r)>>
        /\ notif' = Append(notif, Notification(delta, r))
        /\ tasks' = [tasks EXCEPT ![t].pc = "notify", ![t].batch = Tail(batch),
                                  ![t].cur = Len(notif) + 1]

\* Next() returns a batch; its first delta is applied before the task
\* suspends again. With an empty batch the for loop is skipped:
\* _watch_received.set(), then await Next() again, with nothing applied.
\* The source delivers at most budget deltas in a run.
Returns(t, batch, budget) ==
    /\ tasks[t].pc = "next"
    /\ ~tasks[t].cancel
    /\ Len(received) + Len(batch) <= budget
    /\ received' = received \o batch
    /\ IF batch = <<>>
       THEN /\ watch_received' = TRUE
            /\ tasks' = [tasks EXCEPT ![t].got = TRUE,
                                      ![t].first = Len(notif) + 1]
            /\ UNCHANGED <<state, ret, notif>>
       ELSE /\ apply_and_shield(t, batch)
            /\ UNCHANGED watch_received
    /\ UNCHANGED <<held, blocked, connection, watch_conn, watch_shutdown,
                   observers, clientPc>>

Next_returns(t, batch) == Returns(t, batch, MaxDeltas)

\* The shielded _notify_observers() has run and the observer tasks it
\* created have had their first step, so the await returns to the watcher.
Notified(t) ==
    /\ tasks[t].pc = "notify"
    /\ ~tasks[t].cancel
    /\ notif[tasks[t].cur].notify = "done"
    /\ \A o \in ObserverIds : notif[tasks[t].cur].obs[o] # "scheduled"

next_delta(t) ==
    /\ Notified(t)
    /\ tasks[t].batch # <<>>
    /\ apply_and_shield(t, tasks[t].batch)
    /\ UNCHANGED <<held, blocked, connection, watch_conn, watch_shutdown, watch_received,
                   observers, received, clientPc>>

\* The batch is finished: _watch_received.set(), then await Next() again.
batch_done(t) ==
    /\ Notified(t)
    /\ tasks[t].batch = <<>>
    /\ watch_received' = TRUE
    /\ tasks' = [tasks EXCEPT ![t].pc = "next", ![t].got = TRUE,
                              ![t].first = Len(notif) + 1]
    /\ UNCHANGED <<held, blocked, state, connection, watch_conn, watch_shutdown, observers,
                   notif, received, clientPc, ret>>

\* The observer tasks created by ensure_future that have not had their first
\* step: they are on the loop's queue.
Scheduled ==
    {p \in (1..Len(notif)) \X ObserverIds : notif[p[1]].obs[p[2]] = "scheduled"}

\* except CancelledError: the task was cancelled at one of its awaits inside
\* the try block. It awaits self._watch_conn.close(); when _watch_conn is
\* unset or None that statement raises and the task ends with the exception.
\* The shielded task was put on the loop's queue before the cancellation woke
\* the watcher, so it has run by the time the handler does.
cancelled(t) ==
    /\ tasks[t].pc \in {"clone", "next", "notify"}
    /\ tasks[t].cancel
    /\ tasks[t].pc = "notify" => notif[tasks[t].cur].notify = "done"
    /\ tasks' = CloseCalled(
                    [tasks EXCEPT ![t].cancel = FALSE, ![t].batch = <<>>,
                                  ![t].at = tasks[t].pc,
                                  ![t].pc = IF watch_conn = "open"
                                            THEN "closing" ELSE "failed",
                                  ![t].queued = IF watch_conn = "open"
                                                THEN Scheduled ELSE {}])
    /\ UNCHANGED <<held, blocked, state, connection, watch_conn, watch_shutdown,
                   watch_received, observers, notif, received, clientPc, ret>>

\* _watch_conn.close() returned: set _watch_shutdown, _watch_conn = None.
\* A second cancellation arriving during the close ends the task instead.
\* The close suspended the task, so the observer tasks that were on the
\* loop's queue when it was called have had their first step; an observer
\* task another watcher has scheduled since may still be waiting for its own.
closed(t) ==
    /\ tasks[t].pc = "closing"
    /\ tasks[t].queued \cap Scheduled = {}
    /\ IF tasks[t].cancel
       THEN /\ tasks' = [tasks EXCEPT ![t].pc = "cancelled", ![t].cancel = FALSE,
                                      ![t].queued = {}]
            /\ UNCHANGED <<watch_conn, watch_shutdown>>
       ELSE /\ tasks' = Rebind(CloseReturned([tasks EXCEPT ![t].pc = "done",
                                                           ![t].queued = {}]), 0)
            /\ watch_shutdown' = TRUE
            /\ watch_conn' = "None"
    /\ UNCHANGED <<held, blocked, state, connection, watch_received, observers, notif,
                   received, clientPc, ret>>

\* ------------------------------------------------- Model._notify_observers
\* Mutant: the notification is not shielded from the watcher's cancellation,
\* a pending cancellation request drops it.
notify_observers_cancellable(k) ==
    /\ notif[k].notify = "pending"
    /\ notif' = [notif EXCEPT ![k].notify = "done",
                    ![k].obs = [o \in ObserverIds |->
                                   IF /\ o \in observers
                                      /\ ~\E t \in 1..Len(tasks) :
                                            tasks[t].cur = k /\ tasks[t].cancel
                                   THEN "scheduled" ELSE "none"]]
    /\ UNCHANGED <<held, blocked, state, connection, watch_conn, watch_shutdown,
                   watch_received, observers, tasks, received, clientPc, ret>>

\* The shielded task runs: one ensure_future per observer in self.observers.
notify_observers(k) ==
    /\ notif[k].notify = "pending"
    /\ notif' = [notif EXCEPT ![k].notify = "done",
                    ![k].obs = [o \in ObserverIds |->
                                   IF o \in observers THEN "scheduled" ELSE "none"]]
    /\ UNCHANGED <<held, blocked, state, connection, watch_conn, watch_shutdown,
                   watch_received, observers, tasks, received, clientPc, ret>>

\* An observer task starts: o(delta, old_obj, new_obj, model) is invoked.
observer_call(k, o) ==
    /\ notif[k].obs[o] = "scheduled"
    /\ notif' = [notif EXCEPT ![k].obs[o] = "running",
                              ![k].calls[o] = @ + 1,
                              ![k].handler[o] =
                                  ModelObserver_call(o, notif[k].delta,
                                                     notif[k].old, notif[k].new)]
    /\ UNCHANGED <<held, blocked, state, connection, watch_conn, watch_shutdown,
                   watch_received, observers, tasks, received, clientPc, ret>>

\* The observer coroutine returns.
observer_return(k, o) ==
    /\ notif[k].obs[o] = "running"
    /\ notif' = [notif EXCEPT ![k].obs[o] = "done"]
    /\ UNCHANGED <<held, blocked, state, connection, watch_conn, watch_shutdown,
                   watch_received, observers, tasks, received, clientPc, ret>>

\* Mutant: the observers are awaited in line, so the exception of one goes
\* through the shield into the watcher and the observers after it never run.
observer_raise_propagates(k, o) ==
    /\ notif[k].obs[o] = "running"
    /\ notif' = [notif EXCEPT ![k].obs =
                    [p \in ObserverIds |->
                        IF p = o THEN "failed"
                        ELSE IF notif[k].obs[p] = "scheduled" THEN "none"
                        ELSE notif[k].obs[p]]]
    /\ tasks' = [t \in 1..Len(tasks) |->
                    IF tasks[t].pc \in {"next", "notify"}
                    THEN [tasks[t] EXCEPT !.pc = "failed"]
                    ELSE tasks[t]]
    /\ UNCHANGED <<held, blocked, state, connection, watch_conn, watch_shutdown,
                   watch_received, observers, received, clientPc, ret>>

\* The observer coroutine raises: the exception stays in its own task (the
\* one ensure_future created), which nothing awaits.
observer_raise(k, o) ==
    /\ notif[k].obs[o] = "running"
    /\ notif' = [notif EXCEPT ![k].obs[o] = "failed"]
    /\ UNCHANGED <<held, blocked, state, connection, watch_conn, watch_shutdown,
                   watch_received, observers, tasks, received, clientPc, ret>>

\* ------------------------------------------------------------ specification
Next ==
    \/ \E o \in 1..MaxObservers : add_observer(o)
    \/ connect_current
    \/ watch
    \/ connect_return
    \/ disconnect
    \/ disconnect_shutdown
    \/ disconnect_close
    \/ \E t \in 1..Len(tasks) : start_watch(t)
    \/ \E t \in 1..Len(tasks) : clone(t)
    \/ \E t \in 1..Len(tasks) : transport_error(t)
    \/ \E t \in 1..Len(tasks), batch \in Batches : Next_returns(t, batch)
    \/ \E t \in 1..Len(tasks) : next_delta(t)
    \/ \E t \in 1..Len(tasks) : batch_done(t)
    \/ \E t \in 1..Len(tasks) : cancelled(t)
    \/ \E t \in 1..Len(tasks) : closed(t)
    \/ \E k \in 1..Len(notif) : notify_observers(k)
    \/ \E k \in 1..Len(notif), o \in ObserverIds : observer_call(k, o)
    \/ \E k \in 1..Len(notif), o \in ObserverIds : observer_return(k, o)

Spec == Init /\ [][Next]_vars

\* The same program with a watch source that delivers more deltas.
LongRun_returns(t, batch) == Returns(t, batch, MaxLongRun)

LongNext ==
    \/ Next
    \/ \E t \in 1..Len(tasks), batch \in Batches : LongRun_returns(t, batch)

LongSpec == Init /\ [][LongNext]_vars

\* The same program with a caller that also calls connect_current while the
\* Model is connected: the method has no check and proceeds as on a
\* disconnected Model.
connect_reentrant ==
    /\ clientPc = "idle"
    /\ connection = "open"
    /\ Len(tasks) < MaxConnects
    /\ clientPc' = "connecting"
    /\ UNCHANGED <<held, blocked, state, connection, watch_conn, watch_shutdown,
                   watch_received, observers, tasks, notif, received, ret>>

ReentrantNext ==
    \/ Next
    \/ connect_reentrant

ReentrantSpec == Init /\ [][ReentrantNext]_vars

\* The same program with a caller that connects a Model once: one
\* connect_current / disconnect cycle.
connect_once == Len(tasks) = 0 /\ connect_current

OnceNext ==
    \/ \E o \in 1..MaxObservers : add_observer(o)
    \/ connect_once
    \/ watch
    \/ connect_return
    \/ disconnect
    \/ disconnect_shutdown
    \/ disconnect_close
    \/ \E t \in 1..Len(tasks) : start_watch(t)
    \/ \E t \in 1..Len(tasks) : clone(t)
    \/ \E t \in 1..Len(tasks) : transport_error(t)
    \/ \E t \in 1..Len(tasks), batch \in Batches : Next_returns(t, batch)
    \/ \E t \in 1..Len(tasks) : next_delta(t)
    \/ \E t \in 1..Len(tasks) : batch_done(t)
    \/ \E t \in 1..Len(tasks) : cancelled(t)
    \/ \E t \in 1..Len(tasks) : closed(t)
    \/ \E k \in 1..Len(notif) : notify_observers(k)
    \/ \E k \in 1..Len(notif), o \in ObserverIds : observer_call(k, o)
    \/ \E k \in 1..Len(notif), o \in ObserverIds : observer_return(k, o)

OnceSpec == Init /\ [][OnceNext]_vars

\* One connection that is never shut down, with every observer registered at
\* some point and observer coroutines that may raise.
ObserverNext ==
    \/ \E o \in ObserverIds : add_observer(o)
    \/ connect_current
    \/ watch
    \/ connect_return
    \/ \E t \in 1..Len(tasks) : start_watch(t)
    \/ \E t \in 1..Len(tasks) : clone(t)
    \/ \E t \in 1..Len(tasks), batch \in Batches : Next_returns(t, batch)
    \/ \E t \in 1..Len(tasks) : next_delta(t)
    \/ \E t \in 1..Len(tasks) : batch_done(t)
    \/ \E k \in 1..Len(notif) : notify_observers(k)
    \/ \E k \in 1..Len(notif), o \in ObserverIds : observer_call(k, o)
    \/ \E k \in 1..Len(notif), o \in ObserverIds : observer_return(k, o)
    \/ \E k \in 1..Len(notif), o \in ObserverIds : observer_raise(k, o)

ObserverSpec == Init /\ [][ObserverNext]_vars

\* ----------------------------------------------------- the store on its own
\* ModelState.apply_delta called directly on a ModelState, as its unit tests
\* would: any delta, on any store those calls can build.
store_apply_delta(delta) ==
    /\ Len(state[<<delta.entity, delta.id>>]) < MaxHistory
    /\ LET r == apply_delta(state, delta)
       IN  /\ state' = r.state
           /\ ret' = <<Call(state, delta, r)>>
    /\ UNCHANGED <<held, blocked, connection, watch_conn, watch_shutdown, watch_received,
                   observers, tasks, notif, received, clientPc>>

\* A caller keeps a view: the ModelEntity, the call that returned it (via)
\* and, for reference, the data it resolves to at that moment.
Hold(view, via) ==
    <<[view |-> view[1], via |-> via, data |-> data(state, view[1])]>>

\* A read of Model.machines / Model.units ([entity_id]): the caller keeps the
\* view the live-entity map holds for entity_id.
live_entities(entity_type, entity_id) ==
    /\ entity_id \in DOMAIN live_entity_map(state, entity_type)
    /\ held' = Hold(live_entity_map(state, entity_type)[entity_id],
                     "live_entities")
    /\ UNCHANGED <<state, connection, watch_conn, watch_shutdown,
                   watch_received, observers, tasks, notif, received,
                   clientPc, ret, blocked>>

StoreNext ==
    \/ \E delta \in Deltas : store_apply_delta(delta)
    \/ \E entity_type \in Kinds, entity_id \in Ids :
           live_entities(entity_type, entity_id)

StoreSpec == Init /\ [][StoreNext]_vars

\* ----------------------------------------------------- the views of a store
\* A caller that holds one view at a time and navigates from it while deltas
\* for one machine are applied to the store.
ViewDeltas == {d \in Deltas : d.entity = "machine"}

\* The history_index arguments tried on get_entity: in range, past the end,
\* and negative beyond one and beyond two lengths of the longest history.
HistoryIndexes == -(2 * MaxHistory + 3)..(MaxHistory + 1)

\* The caller keeps a non-None result; a None result leaves it with the view
\* it has.
Keep(result, via) ==
    /\ held' = IF result = NoEntity THEN held ELSE Hold(result, via)
    /\ UNCHANGED <<state, connection, watch_conn, watch_shutdown,
                   watch_received, observers, tasks, notif, received,
                   clientPc, ret, blocked>>

\* The caller keeps the old or the new view of the last apply_delta call.
keep_returned(which) ==
    /\ ret # <<>>
    /\ Keep(IF which = "old" THEN ret[1].old ELSE ret[1].new, "apply_delta")

\* ModelState.get_entity called by the caller (a KeyError for an entity
\* without history).
call_get_entity(entity_type, entity_id, history_index, connected) ==
    /\ entity_history(state, entity_type, entity_id) # <<>>
    /\ Keep(get_entity(state, entity_type, entity_id, history_index, connected),
            "get_entity")

call_previous == held # <<>> /\ Keep(previous(state, held[1].view), "previous")

call_next == held # <<>> /\ Keep(next(state, held[1].view), "next")

call_latest == held # <<>> /\ Keep(latest(state, held[1].view), "latest")

ViewNext ==
    \/ \E delta \in ViewDeltas : store_apply_delta(delta)
    \/ \E entity_type \in Kinds, entity_id \in Ids :
           live_entities(entity_type, entity_id)
    \/ \E which \in {"old", "new"} : keep_returned(which)
    \/ \E entity_type \in Kinds, entity_id \in Ids,
          history_index \in HistoryIndexes, connected \in BOOLEAN :
           call_get_entity(entity_type, entity_id, history_index, connected)
    \/ call_previous
    \/ call_next
    \/ call_latest

ViewSpec == Init /\ [][ViewNext]_vars

\* ------------------------------------------ the store around a connection
\* A caller that applies deltas for one machine to the store of a Model it
\* has not connected, or connects a fresh Model once and disconnects; whenever
\* it is not inside connect_current or disconnect, before, during and after
\* the connection, it reads the live-entity maps, calls get_entity and
\* navigates from the view it holds.
connect_fresh == (\A e \in Entities : state[e] = <<>>) /\ connect_once

HistoryNext ==
    \/ connect_fresh
    \/ watch
    \/ connect_return
    \/ disconnect
    \/ disconnect_shutdown
    \/ disconnect_close
    \/ \E t \in 1..Len(tasks) : start_watch(t)
    \/ \E t \in 1..Len(tasks) : clone(t)
    \/ \E t \in 1..Len(tasks), batch \in Batches : Next_returns(t, batch)
    \/ \E t \in 1..Len(tasks) : next_delta(t)
    \/ \E t \in 1..Len(tasks) : batch_done(t)
    \/ \E t \in 1..Len(tasks) : cancelled(t)
    \/ \E t \in 1..Len(tasks) : closed(t)
    \/ \E k \in 1..Len(notif) : notify_observers(k)
    \/ /\ clientPc = "idle"
       /\ tasks = <<>>
       /\ \E delta \in ViewDeltas : store_apply_delta(delta)
    \/ /\ clientPc = "idle"
       /\ \E entity_type \in Kinds, entity_id \in Ids :
              live_entities(entity_type, entity_id)
    \/ /\ clientPc = "idle"
       /\ \E which \in {"old", "new"} : keep_returned(which)
    \/ /\ clientPc = "idle"
       /\ \E entity_type \in Kinds, entity_id \in Ids,
             history_index \in HistoryIndexes, connected \in BOOLEAN :
              call_get_entity(entity_type, entity_id, history_index, connected)
    \/ clientPc = "idle" /\ call_previous
    \/ clientPc = "idle" /\ call_next
    \/ clientPc = "idle" /\ call_latest

HistorySpec == Init /\ [][HistoryNext]_vars

\* ------------------------------------------ Model.block_until, Model.reset
\* A model with applications and machines: the watch source reports a change
\* to an alive entity or a removal, which carries no data.
ResetKinds == {"application", "machine"}

ResetDeltas ==
    {d \in [entity : ResetKinds, id : Ids, type : {"change", "remove"},
            data : Snapshots] :
        d.data = (IF d.type = "remove" THEN None ELSE "alive")}

ResetBatches == UNION {[1..n -> ResetDeltas] : n \in 0..MaxBatch}

\* The zero-argument predicates a caller hands to block_until, by name:
\*   machine_live     lambda: '0' in model.machines
\*   no_machines      lambda: len(model.machines) == 0
\*   no_applications  lambda: len(model.applications) == 0
Conditions == {"machine_live", "no_machines", "no_applications"}

Condition(c, st) ==
    CASE c = "machine_live" -> "0" \in DOMAIN live_entity_map(st, "machine")
      [] c = "no_machines" -> DOMAIN live_entity_map(st, "machine") = {}
      [] c = "no_applications" -> DOMAIN live_entity_map(st, "application") = {}

\* timeout=None, or a number of seconds.
Timeouts == {None, "finite"}

\* Mutant: the poll is satisfied by any one condition.
any_conditions(conditions, st) == \E c \in conditions : Condition(c, st)

\* all(c() for c in conditions): one synchronous evaluation on the store.
all_conditions(conditions, st) == \A c \in conditions : Condition(c, st)

\* One test of the while loop of _block() by call b: when every condition is
\* true _block() returns, otherwise it awaits asyncio.sleep(.1). Without a
\* timeout wait_for awaits _block() in the caller's own task, so its return
\* is the return of block_until; with a timeout _block() is a task of its
\* own, and its end (pc "finished") only wakes the caller up.
Poll(b, caller) ==
    IF all_conditions(b.conditions, state)
    THEN IF b.timeout = None
         THEN /\ blocked' = [b EXCEPT !.pc = "returned"]
              /\ clientPc' = "idle"
         ELSE /\ blocked' = [b EXCEPT !.pc = "finished"]
              /\ clientPc' = caller
    ELSE /\ blocked' = [b EXCEPT !.pc = "sleep", !.slept = TRUE]
         /\ clientPc' = caller

\* block_until(*conditions, timeout=timeout) is called. Without a timeout
\* the first test of the conditions is part of the call; with one, wait_for
\* creates the _block() task, which is about to test them (pc "poll").
block_until(conditions, timeout) ==
    /\ clientPc = "idle"
    /\ LET b == [op |-> "block_until", conditions |-> conditions,
                 timeout |-> timeout, pc |-> "poll", slept |-> FALSE]
       IN  IF timeout = None
           THEN Poll(b, "block_until")
           ELSE /\ blocked' = b
                /\ clientPc' = "block_until"
    /\ UNCHANGED <<held, state, connection, watch_conn, watch_shutdown,
                   watch_received, observers, tasks, notif, received, ret>>

\* The _block() coroutine runs and tests the conditions.
block_poll ==
    /\ blocked.pc = "poll"
    /\ Poll(blocked, clientPc)
    /\ UNCHANGED <<held, state, connection, watch_conn, watch_shutdown,
                   watch_received, observers, tasks, notif, received, ret>>

\* asyncio.sleep(.1) is over.
block_wake ==
    /\ blocked.pc = "sleep"
    /\ blocked' = [blocked EXCEPT !.pc = "poll"]
    /\ UNCHANGED <<held, state, connection, watch_conn, watch_shutdown,
                   watch_received, observers, tasks, notif, received, ret,
                   clientPc>>

\* wait_for, woken by the end of the _block() task, returns its result to
\* the caller of block_until.
block_return ==
    /\ blocked.pc = "finished"
    /\ blocked' = [blocked EXCEPT !.pc = "returned"]
    /\ clientPc' = "idle"
    /\ UNCHANGED <<held, state, connection, watch_conn, watch_shutdown,
                   watch_received, observers, tasks, notif, received, ret>>

\* The timeout of asyncio.wait_for elapses before _block() has ended: it
\* cancels _block() and raises TimeoutError to the caller. Without a timeout
\* there is no timer.
block_timeout ==
    /\ blocked.pc \in {"poll", "sleep"}
    /\ blocked.timeout # None
    /\ blocked' = [blocked EXCEPT !.pc = "TimeoutError"]
    /\ clientPc' = "idle"
    /\ UNCHANGED <<held, state, connection, watch_conn, watch_shutdown,
                   watch_received, observers, tasks, notif, received, ret>>

\* reset() is called: it awaits destroy() of each live application and
\* machine, requests to the controller that leave the store as it is. With
\* nothing to destroy it goes on to block_until at once.
reset ==
    /\ clientPc = "idle"
    /\ LET b == [op |-> "reset", conditions |-> {"no_machines"},
                 timeout |-> None, pc |-> "destroy", slept |-> FALSE]
       IN  IF /\ DOMAIN live_entity_map(state, "application") = {}
              /\ DOMAIN live_entity_map(state, "machine") = {}
           THEN Poll(b, "reset")
           ELSE /\ blocked' = b
                /\ clientPc' = "reset"
    /\ UNCHANGED <<held, state, connection, watch_conn, watch_shutdown,
                   watch_received, observers, tasks, notif, received, ret>>

\* The destroy() calls have returned: block_until(lambda: len(machines) == 0),
\* whose first test is part of the same step.
reset_destroyed ==
    /\ blocked.pc = "destroy"
    /\ Poll(blocked, clientPc)
    /\ UNCHANGED <<held, state, connection, watch_conn, watch_shutdown,
                   watch_received, observers, tasks, notif, received, ret>>

Block_returns(t, batch) == Returns(t, batch, MaxDeltas)

BlockInit ==
    /\ state = [e \in ResetKinds \X Ids |-> <<>>]
    /\ connection = "None"
    /\ watch_conn = "unset"
    /\ watch_shutdown = FALSE
    /\ watch_received = FALSE
    /\ observers = {}
    /\ tasks = <<>>
    /\ notif = <<>>
    /\ received = <<>>
    /\ clientPc = "idle"
    /\ ret = <<>>
    /\ held = <<>>
    /\ blocked = NoCall

\* One connection that stays open, and a caller that calls block_until and
\* reset while the watcher applies deltas.
BlockNext ==
    \/ connect_current
    \/ watch
    \/ connect_return
    \/ \E t \in 1..Len(tasks) : start_watch(t)
    \/ \E t \in 1..Len(tasks) : clone(t)
    \/ \E t \in 1..Len(tasks), batch \in ResetBatches : Block_returns(t, batch)
    \/ \E t \in 1..Len(tasks) : next_delta(t)
    \/ \E t \in 1..Len(tasks) : batch_done(t)
    \/ \E k \in 1..Len(notif) : notify_observers(k)
    \/ \E conditions \in SUBSET Conditions, timeout \in Timeouts :
           block_until(conditions, timeout)
    \/ block_poll
    \/ block_wake
    \/ block_return
    \/ block_timeout
    \/ reset
    \/ reset_destroyed

\* While the event loop runs, the timer of wait_for fires and a woken
\* wait_for returns.
BlockSpec ==
    BlockInit /\ [][BlockNext]_vars
        /\ WF_vars(block_timeout) /\ WF_vars(block_return)


\* ===================================================================== claims
Terminated(t) == tasks[t].pc \in {"done", "cancelled", "failed"}

\* The notifications with an observer task that may still read its views.
InFlight(k) == \E o \in ObserverIds : notif[k].obs[o] \in {"scheduled", "running"}

Complete(k) ==
    /\ notif[k].notify = "done"
    /\ \A o \in ObserverIds : notif[k].obs[o] \in {"none", "done"}

\* C1: apply_delta returns old == None exactly when the delta records the
\* first snapshot ever stored for its (kind, id).
C1_OldNoneIffCreation ==
    \A i \in 1..Len(ret) : (ret[i].old = NoEntity) <=> (ret[i].before = <<>>)

\* C2: when the entity's latest snapshot before the call was S, the old view
\* returned by apply_delta resolves to S, for a change and for a removal.
C2_OldIsPriorSnapshot ==
    \A i \in 1..Len(ret) :
        ret[i].before # <<>> =>
            /\ ret[i].old # NoEntity
            /\ Resolve(state, ret[i].old) = ret[i].before[Len(ret[i].before)]

\* C3: apply_delta never returns None as new; right after the call new.data
\* is the delta's data for an add/change and new.dead holds for a removal.
C3_NewIsDelta ==
    \A i \in 1..Len(ret) :
        /\ ret[i].new # NoEntity
        /\ ret[i].delta.type # "remove" =>
               data(state, ret[i].new[1]) = ret[i].delta.data
        /\ ret[i].delta.type = "remove" => dead(state, ret[i].new[1])

\* C3 witness: a removal carrying data was applied to an entity with history
\* and its new view is dead.
C3_Witness ==
    /\ ret # <<>>
    /\ ret[1].delta.type = "remove"
    /\ ret[1].delta.data # None
    /\ ret[1].before # <<>>
    /\ ret[1].new # NoEntity
    /\ dead(state, ret[1].new[1])

\* C4: whenever an observer task of a delta reads the (old, new) views it was
\* handed, they resolve to what they resolved to when that delta was applied,
\* also after the watch loop has applied later deltas.
C4_ViewsPinned ==
    \A k \in 1..Len(notif) :
        InFlight(k) =>
            /\ Resolve(state, notif[k].new) = notif[k].newData
            /\ Resolve(state, notif[k].old) = notif[k].oldData

\* C5: for every applied delta, every observer registered when it was applied
\* is invoked at most once, and its invocation is never lost: it has happened
\* or is still scheduled to happen, also after the watcher was cancelled.
C5_NotifiedOnce ==
    \A k \in 1..Len(notif) : \A o \in ObserverIds :
        /\ notif[k].calls[o] <= 1
        /\ o \in notif[k].registered =>
               \/ notif[k].calls[o] = 1
               \/ notif[k].notify = "pending"
               \/ notif[k].obs[o] = "scheduled"

\* C5 witness: a watcher cancelled while it awaited a delta's notification has
\* shut down, and the observer registered for that delta was invoked once.
C5_Witness ==
    \E t \in 1..Len(tasks) : \E o \in ObserverIds :
        /\ tasks[t].at = "notify"
        /\ tasks[t].pc = "done"
        /\ o \in notif[tasks[t].cur].registered
        /\ notif[tasks[t].cur].calls[o] = 1

\* C6: when a watcher cancelled in the middle of a batch has closed the watch
\* connection and set _watch_shutdown, every notification of that batch has
\* completed.
C6_ShieldedComplete ==
    \A t \in 1..Len(tasks) :
        (tasks[t].at = "notify" /\ tasks[t].pc = "done") =>
            \A k \in tasks[t].first..tasks[t].cur : Complete(k)

\* C7: a disconnect call on an open connection completes: while it waits for
\* _watch_shutdown, the event is set or a watcher task is still there to set it.
C7_DisconnectCompletes ==
    (clientPc = "wait_shutdown" /\ ~watch_shutdown) =>
        \E t \in 1..Len(tasks) : ~Terminated(t)

\* C8: once connect_current has returned, the watcher task started by that
\* call has received and fully applied at least one batch.
C8_ConnectPopulated ==
    (clientPc = "idle" /\ connection = "open") => tasks[Len(tasks)].got

\* C9: histories are append-only: no step changes or drops a snapshot that
\* is already recorded.
C9_AppendOnly ==
    [][\A e \in Entities :
          /\ Len(state'[e]) >= Len(state[e])
          /\ SubSeq(state'[e], 1, Len(state[e])) = state[e]]_vars

\* C9 witness: a history of three snapshots, ending in a tombstone, after the
\* watcher that recorded it was shut down by a completed disconnect, with the
\* caller holding a view of it that it reached by previous, next or latest.
C9_Witness ==
    \E e \in Entities :
        /\ Len(state[e]) >= 3
        /\ state[e][Len(state[e])] = None
        /\ tasks # <<>>
        /\ tasks[1].pc = "done"
        /\ connection = "None"
        /\ held # <<>>
        /\ <<held[1].view.entity_type, held[1].view.entity_id>> = e
        /\ held[1].via \in {"previous", "next", "latest"}

\* C10: the deltas applied to the store are, in order, a prefix of the deltas
\* returned by Next(): none skipped, duplicated or reordered.
C10_AppliedInOrder ==
    /\ Len(notif) <= Len(received)
    /\ \A k \in 1..Len(notif) : notif[k].delta = received[k]

\* ------------------------------------------------------------ store and views
LastOf(history) == history[Len(history)]

\* The position in the history that index i denotes (0 is the first snapshot).
Eff(history, i) == IF i >= 0 THEN i ELSE Len(history) + i

HistoryOf(v) == entity_history(state, v.entity_type, v.entity_id)

Pos(v) == Eff(HistoryOf(v), v.history_index)

\* C11: the live-entity map of a kind holds exactly the ids of that kind whose
\* latest snapshot is not a tombstone, each as the connected view at the latest
\* index; the id of the delta applied last is in it after an add or a change
\* and not in it after a removal.
C11_LiveEntities ==
    \A kind \in Kinds :
        LET m == live_entity_map(state, kind)
        IN  /\ DOMAIN m = {id \in Ids : /\ state[<<kind, id>>] # <<>>
                                        /\ LastOf(state[<<kind, id>>]) # None}
            /\ \A id \in DOMAIN m : m[id] = ModelEntity(id, kind, -1, TRUE)
            /\ \A i \in 1..Len(ret) :
                   ret[i].delta.entity = kind =>
                       ((ret[i].delta.id \in DOMAIN m) <=>
                            (ret[i].delta.type # "remove"))

\* C11 witness: a live machine was removed and is gone from the machines map,
\* while the units map still holds a live unit.
C11_Witness ==
    /\ ret # <<>>
    /\ ret[1].delta.entity = "machine"
    /\ ret[1].delta.type = "remove"
    /\ ret[1].before # <<>>
    /\ LastOf(ret[1].before) # None
    /\ DOMAIN live_entity_map(state, "machine") = {}
    /\ DOMAIN live_entity_map(state, "unit") = {"0"}

\* C12: while the latest snapshot of an entity is the tombstone of a removal,
\* every view of it reports dead and not alive: the view the caller holds from
\* before the removal, and the view get_entity returns for any index.
C12_DeadAfterRemove ==
    \A e \in Entities :
        (state[e] # <<>> /\ LastOf(state[e]) = None) =>
            /\ \A i \in 1..Len(held) :
                   <<held[i].view.entity_type, held[i].view.entity_id>> = e =>
                       /\ dead(state, held[i].view)
                       /\ ~alive(state, held[i].view)
            /\ \A history_index \in HistoryIndexes, connected \in BOOLEAN :
                   LET view == get_entity(state, e[1], e[2], history_index,
                                          connected)
                   IN  view # NoEntity =>
                           /\ dead(state, view[1])
                           /\ ~alive(state, view[1])

\* C12 witness: the caller holds a disconnected view of the first snapshot,
\* taken while the machine was alive; the machine has since been removed.
C12_Witness ==
    /\ held # <<>>
    /\ held[1].view.history_index = 0
    /\ ~held[1].view.connected
    /\ held[1].data # None
    /\ data(state, held[1].view) # None
    /\ Len(HistoryOf(held[1].view)) >= 3
    /\ LastOf(HistoryOf(held[1].view)) = None

\* C13: after a removal with null data is applied to an entity whose latest
\* snapshot was the data mapping S, the history is the one before followed by
\* a single tombstone, and get_entity at index -2 resolves to S.
C13_RemoveKeepsLastState ==
    \A i \in 1..Len(ret) :
        LET delta == ret[i].delta
            before == ret[i].before
        IN  (/\ delta.type = "remove"
             /\ delta.data = None
             /\ before # <<>>
             /\ LastOf(before) # None) =>
                /\ state[<<delta.entity, delta.id>>] = Append(before, None)
                /\ Resolve(state, get_entity(state, delta.entity, delta.id,
                                             -2, TRUE)) = LastOf(before)

\* C14: previous() of a view returns a disconnected view of the snapshot one
\* position before the one the view resolves to, and None when the view
\* resolves to the first snapshot.
C14_PreviousOneEarlier ==
    \A i \in 1..Len(held) :
        LET v == held[i].view
            p == previous(state, v)
        IN  IF Pos(v) = 0
            THEN p = NoEntity
            ELSE /\ p # NoEntity
                 /\ ~p[1].connected
                 /\ Pos(p[1]) = Pos(v) - 1

\* C15: next() of a view pinned at a numeric index i with a later snapshot
\* returns a view of the snapshot at i + 1, connected exactly when i + 1 is the
\* latest index; next() of a current view (index -1) returns None.
C15_NextOneLater ==
    \A i \in 1..Len(held) :
        LET v == held[i].view
            n == next(state, v)
        IN  /\ v.history_index = -1 => n = NoEntity
            /\ (v.history_index >= 0 /\ v.history_index + 1 < Len(HistoryOf(v))) =>
                   /\ n # NoEntity
                   /\ Pos(n[1]) = v.history_index + 1
                   /\ n[1].connected <=>
                          (v.history_index + 1 = Len(HistoryOf(v)) - 1)

\* C16: for a view at a numeric index strictly between the first and the last
\* snapshot, next().previous() and previous().next() both resolve to the
\* position of the view itself.
C16_RoundTrip ==
    \A i \in 1..Len(held) :
        LET v == held[i].view
            n == next(state, v)
            p == previous(state, v)
        IN  (v.history_index > 0 /\ v.history_index < Len(HistoryOf(v)) - 1) =>
                /\ n # NoEntity
                /\ previous(state, n[1]) # NoEntity
                /\ Pos(previous(state, n[1])[1]) = Pos(v)
                /\ p # NoEntity
                /\ next(state, p[1]) # NoEntity
                /\ Pos(next(state, p[1])[1]) = Pos(v)

\* C17: latest() of any view the caller can hold returns a view that is
\* current (index -1) and connected.
C17_LatestConnected ==
    \A i \in 1..Len(held) :
        LET l == latest(state, held[i].view)
        IN  /\ l # NoEntity
            /\ current(l[1])
            /\ l[1].connected

\* C18: for a view whose connected flag the store or a view set itself (it was
\* returned by apply_delta, the live-entity map, previous, next or latest): with
\* connected == False it keeps resolving to the snapshot it resolved to when
\* the caller got it, whatever is applied later; with connected == True it
\* resolves to the entity's latest snapshot.
C18_ConnectedFlag ==
    \A i \in 1..Len(held) :
        LET v == held[i].view
        IN  held[i].via # "get_entity" =>
                IF v.connected
                THEN data(state, v) = LastOf(HistoryOf(v))
                ELSE data(state, v) = held[i].data

\* ------------------------------------------------------------------ observers
\* The delta of notification k recorded the first snapshot of its entity.
Created(k) ==
    ~\E j \in 1..(k - 1) :
        /\ notif[j].delta.entity = notif[k].delta.entity
        /\ notif[j].delta.id = notif[k].delta.id

\* C19: the handler a ModelObserver awaits for a delta is on_<kind>_add exactly
\* when the delta created the entity, otherwise on_<kind>_<delta type>, and
\* on_change when the observer defines no method of that name.
C19_HandlerByKind ==
    \A k \in 1..Len(notif) : \A o \in ObserverIds :
        notif[k].calls[o] = 1 =>
            LET type_ == IF Created(k) THEN "add" ELSE notif[k].delta.type
                name == "on_" \o notif[k].delta.entity \o "_" \o type_
            IN  notif[k].handler[o] =
                    IF name \in Handlers(o) THEN name ELSE "on_change"

\* C20: once an observer coroutine has raised, no watcher task has ended, and
\* every observer registered for any applied delta has been invoked or its
\* invocation is still to come.
C20_ObserverFailureIsolated ==
    (\E k \in 1..Len(notif) : \E o \in ObserverIds : notif[k].obs[o] = "failed") =>
        /\ \A t \in 1..Len(tasks) : ~Terminated(t)
        /\ \A k \in 1..Len(notif) : \A o \in notif[k].registered :
               \/ notif[k].calls[o] = 1
               \/ notif[k].notify = "pending"
               \/ notif[k].obs[o] = "scheduled"

\* C20 witness: observer 1 raised on the first delta; observer 2 handled that
\* delta, a second delta was applied and both observers were invoked for it, and
\* the watcher is waiting for the next batch.
C20_Witness ==
    /\ Len(notif) >= 2
    /\ notif[1].obs[1] = "failed"
    /\ notif[1].obs[2] = "done"
    /\ notif[2].calls[1] = 1
    /\ notif[2].calls[2] = 1
    /\ tasks # <<>>
    /\ tasks[1].pc = "next"
    /\ tasks[1].got

\* ------------------------------------------------------- cancellation, lookup
\* C23: a batch returned by Next() is applied whole: whenever no watcher task
\* is in the middle of a batch, every delta returned so far has been applied,
\* and every notification that ran scheduled each observer registered for its
\* delta, also when the watcher was cancelled during the batch.
C23_BatchAppliedWhole ==
    (\A t \in 1..Len(tasks) : tasks[t].pc # "notify") =>
        /\ Len(notif) = Len(received)
        /\ \A k \in 1..Len(notif) : \A o \in notif[k].registered :
               notif[k].notify = "done" => notif[k].obs[o] # "none"

\* C25: for an entity with a history of length L, get_entity returns None for
\* every index outside -L .. L-1 and, for every index inside, a view resolving
\* to the snapshot that index denotes.
C25_OutOfRangeIsNone ==
    \A e \in Entities : \A history_index \in HistoryIndexes :
        state[e] # <<>> =>
            LET view == get_entity(state, e[1], e[2], history_index, TRUE)
            IN  IF InRange(state[e], history_index)
                THEN /\ view # NoEntity
                     /\ Pos(view[1]) = Eff(state[e], history_index)
                ELSE view = NoEntity

\* ------------------------------------------------------ connections, shutdown
\* C24: _watch_shutdown is set only by a watcher task that leaves its
\* cancellation handler, after the close() it awaited has returned; and when
\* disconnect closes the primary connection, every connection a watcher task
\* cloned has been closed.
C24_ShutdownAfterClose ==
    [][/\ (~watch_shutdown /\ watch_shutdown') =>
              /\ \E t \in 1..Len(tasks) :
                     /\ tasks[t].pc = "closing"
                     /\ tasks'[t].pc = "done"
              /\ \A t \in 1..Len(tasks) : tasks'[t].conn # "closing"
       /\ (connection = "open" /\ connection' = "None") =>
              \A t \in 1..Len(tasks) : tasks[t].conn \in {"none", "closed"}]_vars

\* C26: connect_current on a connected Model is rejected: while the Model is
\* connected no watcher task is created, and never do two watcher tasks stand
\* in the watch loop.
C26_ReentrantRejected ==
    [][/\ connection = "open" => Len(tasks') = Len(tasks)
       /\ Cardinality({t \in 1..Len(tasks') :
                           tasks'[t].pc \in {"clone", "next", "notify"}}) <= 1]_vars

\* C21: block_until returns only after a poll at which every condition is
\* true of the store: a step that ends _block() or returns to the caller is
\* either such a poll or the return that follows the end of _block(); a
\* timeout error occurs only with a finite timeout and its step changes
\* neither the store nor the watcher tasks and connections; and with a
\* finite timeout the call does not block forever.
C21_BlockUntil ==
    /\ [][/\ (blocked' # blocked /\ blocked'.pc \in {"finished", "returned"}) =>
                 \/ /\ blocked.pc = "finished"
                    /\ blocked' = [blocked EXCEPT !.pc = "returned"]
                 \/ /\ blocked.pc # "finished"
                    /\ \A c \in blocked'.conditions : Condition(c, state)
                    /\ state' = state
          /\ (blocked.pc # "TimeoutError" /\ blocked'.pc = "TimeoutError") =>
                 /\ blocked.timeout # None
                 /\ UNCHANGED <<state, connection, watch_conn, watch_shutdown,
                                watch_received, observers, tasks, notif,
                                received>>]_vars
    /\ (blocked.pc \in {"poll", "sleep", "finished"} /\ blocked.timeout # None)
           ~> (blocked.pc \in {"returned", "TimeoutError"})

\* C21 witness: a block_until call with a timeout on two conditions has
\* returned after a poll that failed and one that succeeded, and the watcher,
\* now waiting for its next batch, has since made a condition false.
C21_Witness ==
    /\ blocked.op = "block_until"
    /\ blocked.pc = "returned"
    /\ blocked.slept
    /\ blocked.timeout # None
    /\ Cardinality(blocked.conditions) >= 2
    /\ \E c \in blocked.conditions : ~Condition(c, state)
    /\ \E t \in 1..Len(tasks) : tasks[t].pc = "next" /\ tasks[t].got

\* C22: when reset returns, the store has no live application and no live
\* machine.
C22_ResetClean ==
    [][(blocked' # blocked /\ blocked'.op = "reset"
            /\ blocked'.pc = "returned") =>
           /\ DOMAIN live_entity_map(state', "application") = {}
           /\ DOMAIN live_entity_map(state', "machine") = {}]_vars

====
